---- MODULE Spec2Model ----
(***************************************************************************)
(* Model of the 2ip API client (python-modules/2ip).                        *)
(*                                                                          *)
(*  - TwoIP (twoip/twoip.py): the asyncio batch client.  One lookup call    *)
(*    normalizes the address list, creates one httpx.AsyncClient, creates   *)
(*    one (lru_cache'd) request coroutine per address, awaits them with     *)
(*    asyncio.gather, closes the client and parses the raw results.         *)
(*  - Provider (twoip/methods/provider.py, twoip/http.py): the synchronous  *)
(*    provider client, which looks the addresses up one after the other.    *)
(*  - Client.__normalize_ips (twoip/client.py): the string normalizer.      *)
(*  - The parsers of TwoIP and HTTP.get applied to the outcome of one       *)
(*    request, and the result records they build (twoip/datatypes).         *)
(*  - The result collections (twoip/datatypes/base.py): to_dict, to_table   *)
(*    and to_csv.                                                           *)
(*                                                                          *)
(* In a list given by a caller a string is the record [str |-> s] and an    *)
(* address object is the record [version |-> 4 or 6, packed |-> value].     *)
(***************************************************************************)
EXTENDS Integers, Sequences, FiniteSets, TLC

\* ---------------------------------------------------------------------
\* Bounds of the model
\* ---------------------------------------------------------------------
\* longest address list handed to one lookup call
MaxLen == 2
\* most records in a result collection
MaxRecords == 2
\* longest field list handed to to_table and to_csv
MaxFields == 3
\* most rows in a table that is sorted
MaxRows == 2
\* number of lookup calls made on one TwoIP object
MaxBatches == 2
\* number of lookup calls followed under fair scheduling
MaxFairBatches == 1

\* ---------------------------------------------------------------------
\* Program constants
\* ---------------------------------------------------------------------
\* TwoIP.__init__ accepts 1 .. ConnCap connections
ConnCap == 100
\* python's None in the place of an integer
NoneInt == 0 - 1
None == "None"

\* The addresses of the model, one IPv4 and one IPv6: an IPv4Address /
\* IPv6Address object is its version and its value (four octets, eight
\* 16 bit groups)
A4 == [version |-> 4, packed |-> <<192, 0, 2, 0>>]
A6 == [version |-> 6, packed |-> <<0, 0, 0, 0, 0, 0, 0, 1>>]
Addr == {A4, A6}

\* strings a caller may pass: the canonical text of 192.0.2.0, a non
\* canonical spelling of ::1, and a string that is no address
Strings == {"192.0.2.0", "0:0:0:0:0:0:0:1", "bogus"}

\* what a caller may put in the list: strings and typed addresses
Items == [str : Strings] \cup Addr

\* type(address) in [IPv4Address, IPv6Address]
is_address_object(item) == "version" \in DOMAIN item

\* all lists of at most n elements of S
SeqUpTo(S, n) == UNION {[1..k -> S] : k \in 0..n}

Range(s) == {s[i] : i \in 1..Len(s)}

\* ipaddress.ip_address(str): whether the text is an address, and the
\* address object it denotes
is_ip(s) == s \in {"192.0.2.0", "192.0.2.1", "::1", "0:0:0:0:0:0:0:1",
                    "2001:db8::"}
ip_address(s) ==
    CASE s = "192.0.2.0" -> A4
      [] s = "192.0.2.1" -> [version |-> 4, packed |-> <<192, 0, 2, 1>>]
      [] s = "::1" -> A6
      [] s = "0:0:0:0:0:0:0:1" -> A6
      [] s = "2001:db8::" -> [version |-> 6, packed |-> <<8193, 3512, 0, 0, 0, 0, 0, 0>>]

\* str(address): the canonical text of an address object
str_ip(a) ==
    CASE a = A4 -> "192.0.2.0"
      [] a = A6 -> "::1"

\* ---------------------------------------------------------------------
\* TwoIP.__normalize_ip
\* ---------------------------------------------------------------------
\* what log.fatal / log.warning is called with: the level, the text and
\* the address the text quotes
log_entry(level, message, address) ==
    [level |-> level, message |-> message, address |-> address]

\* the calls of log.fatal and log.warning in the loop body for a string:
\* an invalid address in strict mode, an invalid address otherwise, a
\* duplicate
log_invalid(s, st) ==
    IF st THEN <<log_entry("fatal", "Could not validate IP address", s)>>
    ELSE <<log_entry("warning", "Could not validate IP address, it will be skipped", s)>>
log_duplicate(s) == <<log_entry("warning", "Skipping duplicate IP address", s)>>

\* faulty variant: an element that is already an address object is skipped
normalize_step_skip_objects(acc, item, st) ==
    IF is_address_object(item)
    THEN [fatal |-> FALSE, ips |-> acc, log |-> <<>>]
    ELSE IF ~is_ip(item.str)
         THEN [fatal |-> st, ips |-> acc, log |-> log_invalid(item.str, st)]
         ELSE IF ip_address(item.str) \in Range(acc)
              THEN [fatal |-> FALSE, ips |-> acc, log |-> log_duplicate(item.str)]
              ELSE [fatal |-> FALSE, ips |-> Append(acc, ip_address(item.str)),
                    log |-> <<>>]

\* The loop body of __normalize_ip for one element: acc is the local list
\* ips; fatal is set when log.fatal ends the process (strict mode, invalid
\* address); log holds what the body logs at warning level or above.
normalize_step(acc, item, st) ==
    IF is_address_object(item)
    THEN [fatal |-> FALSE, ips |-> Append(acc, item), log |-> <<>>]
    ELSE IF ~is_ip(item.str)
         THEN [fatal |-> st, ips |-> acc, log |-> log_invalid(item.str, st)]
         ELSE IF ip_address(item.str) \in Range(acc)
              THEN [fatal |-> FALSE, ips |-> acc, log |-> log_duplicate(item.str)]
              ELSE [fatal |-> FALSE, ips |-> Append(acc, ip_address(item.str)),
                    log |-> <<>>]

RECURSIVE normalize_loop(_, _, _, _, _)
normalize_loop(ip, i, acc, lg, st) ==
    IF i > Len(ip) THEN [fatal |-> FALSE, ips |-> acc, log |-> lg]
    ELSE LET r == normalize_step(acc, ip[i], st) IN
         IF r.fatal THEN [fatal |-> TRUE, ips |-> r.ips, log |-> lg \o r.log]
         ELSE normalize_loop(ip, i + 1, r.ips, lg \o r.log, st)

normalize_ip(ip, st) == normalize_loop(ip, 1, <<>>, <<>>, st)

\* ---------------------------------------------------------------------
\* Client.__normalize_ips (twoip/client.py), for a list
\* ---------------------------------------------------------------------
\* list(dict.fromkeys(l)): the first occurrences, in order
RECURSIVE fromkeys(_, _, _)
fromkeys(l, i, acc) ==
    IF i > Len(l) THEN acc
    ELSE fromkeys(l, i + 1, IF l[i] \in Range(acc) THEN acc ELSE Append(acc, l[i]))

\* f'{ip_address(ip)}' if isinstance(ip, str) else f'{ip}', for every
\* element; ip_address raises ValueError for a string that is no address
normalize_ips(l) ==
    IF \E i \in 1..Len(l) : ~is_address_object(l[i]) /\ ~is_ip(l[i].str)
    THEN [raised |-> "ValueError", list |-> <<>>]
    ELSE [raised |-> None,
          list |-> fromkeys([i \in 1..Len(l) |->
                                IF is_address_object(l[i]) THEN str_ip(l[i])
                                ELSE str_ip(ip_address(l[i].str))], 1, <<>>)]

\* ---------------------------------------------------------------------
\* Provider.__to_ip_list (twoip/methods/provider.py)
\* ---------------------------------------------------------------------
\* the lists that hold every element of the set S once
Orderings(S) == {f \in [1..Cardinality(S) -> S] : Range(f) = S}

\* Every string becomes an address object (ValueError for a string that is
\* no address), then list(set(addresses_list)): the order in which a set
\* is iterated is not defined, so every order is a possible outcome.
to_ip_list(l) ==
    IF \E i \in 1..Len(l) : ~is_address_object(l[i]) /\ ~is_ip(l[i].str)
    THEN {[raised |-> "ValueError", list |-> <<>>]}
    ELSE {[raised |-> None, list |-> o] :
            o \in Orderings({IF is_address_object(l[i]) THEN l[i]
                             ELSE ip_address(l[i].str) : i \in 1..Len(l)})}

\* ---------------------------------------------------------------------
\* State
\* ---------------------------------------------------------------------
VARIABLES
    pc,           \* where the TwoIP object is: "new", "idle", "gather",
                  \* "aclose", "returned" or "exited"
    strict,       \* TwoIP._strict
    connections,  \* TwoIP._connections = limits.max_connections
    http2,        \* TwoIP._http2
    calls,        \* number of lookup calls started on the object
    lookup_type,  \* 'geo' or 'provider' of the current call
    ips,          \* the normalized list of the current call
    client,       \* the httpx.AsyncClient of the current call (0: none yet)
    clients,      \* every client created so far: id -> "open" / "closed"
    cache,        \* lru_cache of TwoIP.__request: key -> coroutine object
    tasks,        \* the list tasks of __generate_tasks (coroutine objects)
    co,           \* the coroutines of the current call and their progress
    results,      \* what asyncio.gather returned
    ret,          \* what the last lookup call returned
    gets,         \* number of client.get calls per address in this call
    order,        \* the coroutines of this call in the order they finished
    nin,          \* normalizers: the list given by the caller
    nstrict,      \* normalizers: strict mode
    nfun,         \* normalizers: the function applied ("none" before)
    nout,         \* normalizers: its outcome
    nagain,       \* normalizers: the outcome of applying it to its output
    nlog,         \* normalizers: what TwoIP.__normalize_ip logged
    pcache,       \* methods.Provider: lru_cache of Provider.__lookup
    pret,         \* methods.Provider: outcome of the last lookup call
    pcalls,       \* methods.Provider: number of lookup calls made
    rin,          \* parsers: the outcome of one request handed to the parser
    rfun,         \* parsers: the function applied ("none" before)
    rout,         \* parsers: what it returned or raised
    lkind,        \* collections: 'geo' or 'provider', the kind of the collection
    lres,         \* collections: self.results, the list of records
    lasked,       \* collections: the field list as the caller passed it
    lfields,      \* collections: the caller's field list object
    lfun,         \* collections: the method called ("none" before)
    lcols,        \* collections: fields as returned by __parse_fields
    lout,         \* collections: what the method returned or raised
    sdata,        \* tables: the rows to_table built from the records
    ssort,        \* tables: the sort argument
    sfun,         \* tables: the method called ("none" before)
    sout,         \* tables: what it returned or raised
    cconn,        \* the connections argument of Client(...)
    cstrict,      \* the strict argument of Client(...)
    cfun,         \* "none", or "Client" once the constructor has run
    cobj,         \* the constructed Client, or the exception raised
    kip,          \* the address a ProviderResult is constructed for
    kroute,       \* the route passed to the constructor
    klength,      \* the prefix length (mask) passed to the constructor
    kfun,         \* "none", or the ProviderResult class that was constructed
    kout          \* the constructed record, or the exception raised

tvars == <<pc, strict, connections, http2, calls, lookup_type, ips, client,
           clients, cache, tasks, co, results, ret, gets, order>>
nvars == <<nin, nstrict, nfun, nout, nagain, nlog>>
pvars == <<pcache, pret, pcalls>>
rvars == <<rin, rfun, rout>>
lvars == <<lkind, lres, lasked, lfields, lfun, lcols, lout>>
svars == <<sdata, ssort, sfun, sout>>
cvars == <<cconn, cstrict, cfun, cobj>>
kvars == <<kip, kroute, klength, kfun, kout>>
vars == <<tvars, nvars, pvars, rvars, lvars, svars, cvars, kvars>>

\* ---------------------------------------------------------------------
\* The network, as seen by client.get
\* ---------------------------------------------------------------------
\* responses the API may give
Responses == {[status_code |-> 200, text |-> "json"],
              [status_code |-> 429, text |-> "<html>"]}

\* exceptions client.get may raise: ConnectError and PoolTimeout are
\* httpx.TransportError (a subclass of httpx.RequestError), RuntimeError
\* is neither
Exceptions == {"ConnectError", "PoolTimeout", "RuntimeError"}
IsTransportError(e) == e \in {"ConnectError", "PoolTimeout"}
IsRequestError(e) == IsTransportError(e) \/ e \in {"TooManyRedirects"}

\* ---------------------------------------------------------------------
\* TwoIP.__request
\* ---------------------------------------------------------------------
\* the dict result when client.get raised e: the except chain
request_raised(ip, e) ==
    IF IsRequestError(e) THEN [ip |-> ip, error |-> <<"RequestError", e>>]
    ELSE IF IsTransportError(e) THEN [ip |-> ip, error |-> <<"TransportError", e>>]
    ELSE [ip |-> ip, error |-> <<"Exception", e>>]

\* the dict result when client.get returned a response
request_returned(ip, response) == [ip |-> ip, response |-> response]

\* the key lru_cache computes for a call of __request
request_key(cl, url, ip) == <<cl, url, ip>>

\* faulty variant: __request without lru_cache: every call makes a new
\* coroutine, named by the client and the position in the list
request_call_uncached(ca, cl, url, ip, i) == [coro |-> <<cl, i>>, cache |-> ca]

\* the number of an address among the addresses of the model
addr_no(a) == IF a = A4 THEN 1 ELSE 2

\* One call of the cached __request made at position i of the loop: the
\* coroutine object it returns and the cache afterwards.  The coroutine
\* object made for a key is named by the client and the address of the key.
request_call(ca, cl, url, ip, i) ==
    LET k == request_key(cl, url, ip) IN
    IF k \in DOMAIN ca
    THEN [coro |-> ca[k], cache |-> ca]
    ELSE [coro |-> <<cl, addr_no(ip)>>,
          cache |-> [x \in DOMAIN ca \cup {k} |->
                        IF x = k THEN <<cl, addr_no(ip)>> ELSE ca[x]]]

\* ---------------------------------------------------------------------
\* TwoIP.__generate_url, TwoIP.__generate_tasks
\* ---------------------------------------------------------------------
URI_GEO == "geo.json"
URI_PROVIDER == "provider.json"
generate_url(kind) == IF kind = "geo" THEN URI_GEO ELSE URI_PROVIDER

\* the for loop of __generate_tasks
RECURSIVE generate_loop(_, _, _, _, _, _)
generate_loop(list, i, cl, url, ca, ts) ==
    IF i > Len(list) THEN [tasks |-> ts, cache |-> ca]
    ELSE LET r == request_call(ca, cl, url, list[i], i) IN
         generate_loop(list, i + 1, cl, url, r.cache, Append(ts, r.coro))

\* asyncio.gather schedules each distinct coroutine object once
gather_children(ts) == Range(ts)

\* faulty variant: gather gives up as soon as one child has failed
gather_done_first_error(ts, c) ==
    \/ \A id \in gather_children(ts) : c[id].state = "done"
    \/ \E id \in gather_children(ts) :
           c[id].state = "done" /\ "error" \in DOMAIN c[id].result

\* faulty variant: gather counts one finished child per argument
gather_done_per_argument(ts, c) ==
    Cardinality({id \in gather_children(ts) : c[id].state = "done"}) = Len(ts)

\* asyncio.gather is done when every child is done
gather_done(ts, c) == \A id \in gather_children(ts) : c[id].state = "done"

\* faulty variant: the results in the order in which the coroutines finished
gather_results_as_completed(ts, c) == [i \in 1..Len(order) |-> c[order[i]].result]

\* the list asyncio.gather returns: one entry per argument, in order
gather_results(ts, c) == [i \in 1..Len(ts) |-> c[ts[i]].result]

\* faulty variant: the client is left open
aclose_skipped(cls, cl) == cls

\* client.aclose()
aclose(cls, cl) == [cls EXCEPT ![cl] = "closed"]

\* ---------------------------------------------------------------------
\* The connection pool of one httpx.AsyncClient (limits.max_connections)
\* ---------------------------------------------------------------------
\* connections of the pool of the current client that carry a request
pool_in_use(c) == {c[id].conn : id \in {x \in DOMAIN c : c[x].state = "inflight"}}

\* faulty variant: every task has a pool of its own: a new connection is always
\* to be had
pool_available_per_task(c, limit, h2) ==
    {CHOOSE n \in 1..(Cardinality(DOMAIN c) + 1) : n \notin pool_in_use(c)}

\* the connections a request may be given now: a new one while the pool
\* is below max_connections, or (HTTP/2 only) one already open, on which
\* the request is multiplexed
pool_available(c, limit, h2) ==
    (IF Cardinality(pool_in_use(c)) < limit
     THEN {CHOOSE n \in 1..limit : n \notin pool_in_use(c) /\
                \A m \in 1..(n - 1) : m \in pool_in_use(c)}
     ELSE {})
    \cup (IF h2 THEN pool_in_use(c) ELSE {})

\* ---------------------------------------------------------------------
\* TwoIP.__parse_geo_result, TwoIP.__parse_provider_result
\* ---------------------------------------------------------------------
\* response.json(): whether the body decodes. "json" and "provider" are
\* the JSON objects the API sends, "json_unknown" a geo object with the
\* words for unknown, "json_extra" and "provider_extra" the objects with
\* one more key, "{}" an empty object, "[]" a JSON document that is no
\* object; "<html>" and "" do not decode
json_objects == {"json", "json_unknown", "json_extra", "provider",
                 "provider_extra", "{}"}
json_decodes(text) == text \in json_objects \cup {"[]"}
\* whether the decoded document is a dict (has the method get)
json_is_dict(text) == text \in json_objects
\* the decoded mapping
response_json(text) ==
    CASE text = "json" -> [country_code |-> "UA", country |-> "-", city |-> "Kyiv"]
      [] text = "json_unknown" -> [country_code |-> "UA", country |-> "Neizvestno",
                                   city |-> "Nevidomo"]
      [] text = "json_extra" -> [country_code |-> "UA", country |-> "-",
                                 city |-> "Kyiv", hostname |-> "example.net"]
      [] text = "provider" -> [ip |-> "192.0.2.0", name_ripe |-> "Example",
                               site |-> "-", as |-> "64496",
                               route |-> "192.0.2.0", mask |-> "24"]
      [] text = "provider_extra" -> [ip |-> "192.0.2.0", name_ripe |-> "Example",
                                     site |-> "-", as |-> "64496",
                                     route |-> "192.0.2.0", mask |-> "24",
                                     hostname |-> "example.net"]
      [] OTHER -> [k \in {} |-> ""]

\* the allow-listed fields the model follows (of the 13 of field_filter)
field_filter_geo == {"country_code", "country", "city"}
\* faulty variant: only the dash stands for no data
empty_dash_only == {"-"}
\* "-" and the Russian and Ukrainian words for unknown (transliterated)
empty_geo == {"-", "Neizvestno", "Nevidomo"}

\* extracted = {k: json.get(k, None) for k in field_filter}, then the
\* filter that drops the entries whose value is in empty
extract(json, field_filter, empty) ==
    LET extracted == [k \in field_filter |->
                         IF k \in DOMAIN json THEN json[k] ELSE None]
    IN [k \in {x \in field_filter : extracted[x] \notin empty} |-> extracted[k]]

\* bool(v) of a tuple: a tuple is true when it is not empty
bool(v) == Len(v) # 0

\* BaseResult.__post_init__: both branches assign the one-element tuple
\* (True,) to success ("self.success = True," ends with a comma); only the
\* icon differs
post_init(http_code, error) ==
    IF http_code = 200 /\ error = None
    THEN [success |-> <<TRUE>>, success_icon |-> "HEAVY CHECK MARK"]
    ELSE [success |-> <<TRUE>>, success_icon |-> "HEAVY MULTIPLICATION X"]

\* GeoResult(ipaddress, error, api_response_raw, http_code, **fields): a
\* field that is not passed keeps its default None; GeoResult has no
\* __post_init__ of its own, so BaseResult.__post_init__ runs
GeoResult(ipaddress, error, api_response_raw, http_code, fields) ==
    [type |-> "GeoResult", ipaddress |-> ipaddress, error |-> error,
     api_response_raw |-> api_response_raw, http_code |-> http_code,
     ip |-> str_ip(ipaddress),
     success |-> post_init(http_code, error).success,
     success_icon |-> post_init(http_code, error).success_icon,
     data |-> [k \in field_filter_geo |->
                  IF k \in DOMAIN fields THEN fields[k] ELSE None]]

\* the domain fields of ProviderResult
provider_fields == {"name", "name_rus", "website", "autonomous_system",
                    "range_start", "range_end", "route", "length"}

\* ProviderResult(ipaddress, error, api_response_raw, http_code): the
\* parser passes no domain field, so all keep their default None and
\* ProviderResult.__post_init__ sets prefix to None. That __post_init__
\* replaces the one of BaseResult and does not call it: the attributes
\* success and success_icon are never set.
ProviderResult(ipaddress, error, api_response_raw, http_code) ==
    [type |-> "ProviderResult", ipaddress |-> ipaddress, error |-> error,
     api_response_raw |-> api_response_raw, http_code |-> http_code,
     ip |-> str_ip(ipaddress),
     data |-> [k \in provider_fields |-> None],
     prefix |-> None]

\* what a python function returns when it ends without a return statement
NoneType == [type |-> "NoneType"]

\* an exception that leaves the function
Raised(exc) == [type |-> "raised", exc |-> exc]

NoFields == [k \in {} |-> None]

\* faulty variant: the body is decoded before the status code is looked at
parse_geo_result_decodes_first(result) ==
    IF "error" \in DOMAIN result
    THEN GeoResult(result.ip, result.error, None, NoneInt, NoFields)
    ELSE LET response == result.response
             status_code == response.status_code
             fields == IF json_decodes(response.text) /\ json_is_dict(response.text)
                       THEN extract(response_json(response.text),
                                    field_filter_geo, empty_geo)
                       ELSE NoFields
         IN IF status_code # 200
            THEN IF status_code = 429
                 THEN GeoResult(result.ip, "Rate limit exceeded",
                                response.text, 429, fields)
                 ELSE GeoResult(result.ip, "Unexpected HTTP response code",
                                response.text, status_code, fields)
            ELSE IF ~json_decodes(response.text)
                 THEN GeoResult(result.ip, "Could not parse API response as JSON",
                                response.text, status_code, NoFields)
                 ELSE IF ~json_is_dict(response.text)
                      THEN Raised("AttributeError")
                      ELSE GeoResult(result.ip, None, response.text, status_code, fields)

parse_geo_result(result) ==
    IF "error" \in DOMAIN result
    THEN GeoResult(result.ip, result.error, None, NoneInt, NoFields)
    ELSE LET response == result.response
             status_code == response.status_code
         IN IF status_code # 200
            THEN IF status_code = 429
                 THEN GeoResult(result.ip, "Rate limit exceeded",
                                response.text, 429, NoFields)
                 ELSE GeoResult(result.ip, "Unexpected HTTP response code",
                                response.text, status_code, NoFields)
            ELSE IF ~json_decodes(response.text)
                 THEN GeoResult(result.ip, "Could not parse API response as JSON",
                                response.text, status_code, NoFields)
                 \* json.get of a document that is no dict: AttributeError,
                 \* outside every try block
                 ELSE IF ~json_is_dict(response.text)
                      THEN Raised("AttributeError")
                      ELSE GeoResult(result.ip, None, response.text, status_code,
                                     extract(response_json(response.text),
                                             field_filter_geo, empty_geo))

parse_provider_result(result) ==
    IF "error" \in DOMAIN result
    THEN ProviderResult(result.ip, result.error, None, NoneInt)
    ELSE LET response == result.response
             status_code == response.status_code
         IN IF status_code # 200
            THEN IF status_code = 429
                 THEN ProviderResult(result.ip, "Rate limit exceeded",
                                     response.text, 429)
                 ELSE ProviderResult(result.ip, "Unexpected HTTP response code",
                                     response.text, status_code)
            ELSE IF ~json_decodes(response.text)
                 THEN ProviderResult(result.ip,
                                     "Could not parse API response as JSON",
                                     response.text, status_code)
                 ELSE IF ~json_is_dict(response.text)
                      THEN Raised("AttributeError")
                      \* the function ends after computing filtered: no return
                      ELSE NoneType

\* the collection classes Geo and Provider: a dataclass with the one
\* field results
Geo(res) == [type |-> "Geo", results |-> res]
Provider(res) == [type |-> "Provider", results |-> res]

parse_results(res, kind) ==
    IF kind = "geo"
    THEN Geo([i \in 1..Len(res) |-> parse_geo_result(res[i])])
    ELSE Provider([i \in 1..Len(res) |-> parse_provider_result(res[i])])

\* ---------------------------------------------------------------------
\* The TwoIP object: construction and one lookup call after the other
\* ---------------------------------------------------------------------
\* values tried for the connections argument of TwoIP.__init__: the ends
\* of the accepted range and their neighbours outside it
ConnArgs == {0, 1, ConnCap, ConnCap + 1}

\* the lists a caller may pass to geo() / provider()
Inputs == SeqUpTo(Items, MaxLen)

NoReturn == [type |-> "NoReturn"]
NoCoroutines == [id \in {} |-> 0]
NoGets == [a \in Addr |-> 0]

TwoIPInit ==
    /\ pc = "new"
    /\ strict = FALSE
    /\ connections = 0
    /\ http2 = FALSE
    /\ calls = 0
    /\ lookup_type = None
    /\ ips = <<>>
    /\ client = 0
    /\ clients = [c \in {} |-> "open"]
    /\ cache = [k \in {} |-> 0]
    /\ tasks = <<>>
    /\ co = NoCoroutines
    /\ results = <<>>
    /\ ret = NoReturn
    /\ gets = NoGets
    /\ order = <<>>

\* TwoIP.__init__: log.fatal ends the process when connections is out of
\* range
Construct(conn, st, h2) ==
    /\ pc = "new"
    /\ IF conn < 1 \/ conn > ConnCap
       THEN /\ pc' = "exited"
            /\ UNCHANGED <<strict, connections, http2, kvars>>
       ELSE /\ pc' = "idle"
            /\ connections' = conn
            /\ http2' = h2
            /\ strict' = st
    /\ UNCHANGED <<calls, lookup_type, ips, client, clients, cache, tasks,
                   co, results, ret, gets, order, kvars>>
    /\ UNCHANGED <<nvars, pvars, rvars, lvars, svars, cvars, kvars>>

\* the coroutine objects of a task list, not yet started: __request has
\* not run, result is the dict it will start from
new_coroutines(ts, list) ==
    [id \in Range(ts) |->
        LET a == list[CHOOSE i \in 1..Len(ts) : ts[i] = id] IN
        [ip |-> a, state |-> "pending", conn |-> 0, result |-> [ip |-> a]]]

\* faulty variant: the strict mode of the object is not honoured
lookup_normalized_lenient(arg, st) ==
    [fatal |-> FALSE, ips |-> normalize_ip(arg, FALSE).ips, ip |-> <<>>, log |-> <<>>]

\* What __lookup goes on with after self.__normalize_ip(ip = ip): the
\* normalized list, or, when log.fatal has ended the process, the state
\* of the call at that moment: the argument ip, the local list ips and
\* what was logged.
lookup_normalized(arg, st) ==
    LET r == normalize_ip(arg, st) IN
    IF r.fatal
    THEN [fatal |-> TRUE, ips |-> r.ips, ip |-> arg, log |-> r.log]
    ELSE [fatal |-> FALSE, ips |-> r.ips, ip |-> <<>>, log |-> <<>>]

\* what __normalize_ip makes of the lists a caller may pass, per mode
Normalized == [st \in BOOLEAN |-> {lookup_normalized(arg, st) : arg \in Inputs}]

\* the process ended by exit(code) in Logger.__log_fatal
SystemExit(ip, local_ips, log) ==
    [type |-> "SystemExit", ip |-> ip, ips |-> local_ips, log |-> log]

\* TwoIP.geo / TwoIP.provider -> __lookup, up to the first await: the list
\* is normalized (n is the outcome of __normalize_ip for the list passed),
\* then either the process has ended (strict mode), or the empty collection is
\* returned, or __generate_tasks creates the client and the tasks and
\* awaits asyncio.gather
Lookup(n, kind) ==
    /\ pc \in {"idle", "returned"}
    /\ calls < MaxBatches
    /\ calls' = calls + 1
    /\ IF n.fatal
       THEN \* the process is gone, and with it the memory of the object;
            \* the clients it had created stay as they were
            /\ pc' = "exited"
            /\ lookup_type' = kind
            /\ ips' = <<>>
            /\ cache' = [k \in {} |-> 0]
            /\ tasks' = <<>>
            /\ co' = NoCoroutines
            /\ results' = <<>>
            /\ gets' = NoGets
            /\ order' = <<>>
            /\ ret' = SystemExit(n.ip, n.ips, n.log)
            /\ UNCHANGED <<client, clients, svars, cvars, kvars>>
       ELSE IF n.ips = <<>>
       THEN /\ pc' = "returned"
            /\ lookup_type' = kind
            /\ ips' = <<>>
            /\ tasks' = <<>>
            /\ co' = NoCoroutines
            /\ results' = <<>>
            /\ gets' = NoGets
            /\ order' = <<>>
            /\ ret' = IF kind = "geo" THEN Geo(<<>>) ELSE Provider(<<>>)
            /\ UNCHANGED <<client, clients, cache, svars, cvars, kvars>>
       ELSE LET cl == Cardinality(DOMAIN clients) + 1
                g == generate_loop(n.ips, 1, cl, generate_url(kind), cache, <<>>)
            IN /\ pc' = "gather"
               /\ lookup_type' = kind
               /\ ips' = n.ips
               /\ client' = cl
               /\ clients' = [c \in DOMAIN clients \cup {cl} |->
                                 IF c = cl THEN "open" ELSE clients[c]]
               /\ cache' = g.cache
               /\ tasks' = g.tasks
               /\ co' = new_coroutines(g.tasks, n.ips)
               /\ results' = <<>>
               /\ gets' = NoGets
               /\ order' = <<>>
               /\ ret' = NoReturn
    /\ UNCHANGED <<strict, connections, http2, svars, cvars, kvars>>
    /\ UNCHANGED <<nvars, pvars, rvars, lvars, svars, cvars, kvars>>

\* a scheduled coroutine starts: __request calls client.get, which takes a
\* connection from the pool or waits for one
TaskStart(id) ==
    /\ pc = "gather"
    /\ id \in DOMAIN co
    /\ co[id].state = "pending"
    /\ gets' = [gets EXCEPT ![co[id].ip] = @ + 1]
    /\ LET av == pool_available(co, connections, http2) IN
       IF av = {}
       THEN co' = [co EXCEPT ![id].state = "waiting"]
       ELSE \E n \in av :
                co' = [co EXCEPT ![id].state = "inflight", ![id].conn = n]
    /\ UNCHANGED <<pc, strict, connections, http2, calls, lookup_type, ips,
                   client, clients, cache, tasks, results, ret, order, svars, cvars, kvars>>
    /\ UNCHANGED <<nvars, pvars, rvars, lvars, svars, cvars, kvars>>

\* a waiting request is given a connection
TaskAcquire(id) ==
    /\ pc = "gather"
    /\ id \in DOMAIN co
    /\ co[id].state = "waiting"
    /\ \E n \in pool_available(co, connections, http2) :
           co' = [co EXCEPT ![id].state = "inflight", ![id].conn = n]
    /\ UNCHANGED <<pc, strict, connections, http2, calls, lookup_type, ips,
                   client, clients, cache, tasks, results, ret, gets, order, svars, cvars, kvars>>
    /\ UNCHANGED <<nvars, pvars, rvars, lvars, svars, cvars, kvars>>

\* client.get returns a response: the else branch of __request
TaskRespond(id, response) ==
    /\ pc = "gather"
    /\ id \in DOMAIN co
    /\ co[id].state = "inflight"
    /\ co' = [co EXCEPT ![id].state = "done", ![id].conn = 0,
                        ![id].result = request_returned(co[id].ip, response)]
    /\ order' = Append(order, id)
    /\ UNCHANGED <<pc, strict, connections, http2, calls, lookup_type, ips,
                   client, clients, cache, tasks, results, ret, gets, svars, cvars, kvars>>
    /\ UNCHANGED <<nvars, pvars, rvars, lvars, svars, cvars, kvars>>

\* client.get raises: PoolTimeout while waiting for a connection, any
\* other exception while the request is in flight
TaskRaise(id, e) ==
    /\ pc = "gather"
    /\ id \in DOMAIN co
    /\ \/ co[id].state = "waiting" /\ e = "PoolTimeout"
       \/ co[id].state = "inflight" /\ e # "PoolTimeout"
    /\ co' = [co EXCEPT ![id].state = "done", ![id].conn = 0,
                        ![id].result = request_raised(co[id].ip, e)]
    /\ order' = Append(order, id)
    /\ UNCHANGED <<pc, strict, connections, http2, calls, lookup_type, ips,
                   client, clients, cache, tasks, results, ret, gets, svars, cvars, kvars>>
    /\ UNCHANGED <<nvars, pvars, rvars, lvars, svars, cvars, kvars>>

\* results = await asyncio.gather(*tasks)
GatherReturn ==
    /\ pc = "gather"
    /\ gather_done(tasks, co)
    /\ results' = gather_results(tasks, co)
    /\ pc' = "aclose"
    /\ UNCHANGED <<strict, connections, http2, calls, lookup_type, ips,
                   client, clients, cache, tasks, co, ret, gets, order, svars, cvars, kvars>>
    /\ UNCHANGED <<nvars, pvars, rvars, lvars, svars, cvars, kvars>>

\* await client.aclose(), return results, and in __lookup the parsing of
\* the results and the return of the collection; the task list and the
\* coroutines are locals of __generate_tasks and end with it
Aclose ==
    /\ pc = "aclose"
    /\ clients' = aclose(clients, client)
    /\ ret' = parse_results(results, lookup_type)
    /\ pc' = "returned"
    /\ tasks' = <<>>
    /\ co' = NoCoroutines
    /\ order' = <<>>
    /\ UNCHANGED <<strict, connections, http2, calls, lookup_type, ips,
                   client, cache, results, gets, svars, cvars, kvars>>
    /\ UNCHANGED <<nvars, pvars, rvars, lvars, svars, cvars, kvars>>

\* ---------------------------------------------------------------------
\* HTTP.get and Provider.lookup (twoip/http.py, twoip/methods/provider.py)
\* ---------------------------------------------------------------------
\* what the network does with one request of the synchronous client:
\* self.client.get raises, or returns a response
ProviderNet ==
    {[exc |-> "ConnectError"]}
    \cup [status_code : {200, 429, 500}, content_type : {"application/json"},
          text : {"provider"}]
    \cup [status_code : {200}, content_type : {"text/html"}, text : {"<html>"}]
    \cup [status_code : {200}, content_type : {"application/json"}, text : {"<html>"}]

\* the body "provider" decodes to this mapping
provider_json(address) ==
    [ip |-> str_ip(address), route |-> "192.0.2.0", mask |-> "24", asn |-> "64496"]

\* a response without Content-Type header
NoHeader == "<no header>"

\* the Content-Type headers a response may come with: JSON with and
\* without parameter, another type, an empty header, no header
ContentTypes == {"application/json", "application/json; charset=utf-8",
                 "text/html", "", NoHeader}

\* HTTP.__is_json: headers["content-type"] of the lower-cased dict of the
\* headers raises KeyError when the response has no such header; an
\* empty header and one without the text application/json give False
is_json(content_type) ==
    IF content_type = NoHeader THEN Raised("KeyError")
    ELSE [type |-> "bool",
          value |-> content_type \in {"application/json",
                                      "application/json; charset=utf-8"}]

\* HTTP.__get: the exception it raises (None when it returns the decoded
\* body): an exception of client.get is not caught, __check_code raises
\* for 429 and for a status outside 2xx, then the content type and the
\* JSON decoding are checked
http_get(o) ==
    IF "exc" \in DOMAIN o THEN o.exc
    ELSE IF o.status_code = 429 THEN "APIQuotaExceeded"
    ELSE IF o.status_code < 200 \/ o.status_code > 299 THEN "APIResponseCodeError"
    ELSE IF is_json(o.content_type).type = "raised" THEN is_json(o.content_type).exc
    ELSE IF ~is_json(o.content_type).value THEN "APIContentTypeError"
    ELSE IF ~json_decodes(o.text) THEN "APIParserError"
    ELSE None

\* Provider.__lookup without its cache: the ProviderResult built from the
\* decoded body ("as" renamed to "asn")
provider_result(address) ==
    [type |-> "ProviderResult", ipaddress |-> address, data |-> provider_json(address)]

\* The for loop of Provider.lookup over the list of __to_ip_list: each
\* address is answered from the lru_cache of __lookup or sent to the API;
\* the first exception ends the call. sent is the set of addresses a
\* request was made for.
RECURSIVE provider_loop(_, _, _, _, _, _)
provider_loop(list, i, ca, acc, net, sent) ==
    IF i > Len(list)
    THEN [raised |-> None, results |-> acc, cache |-> ca, sent |-> sent]
    ELSE IF list[i] \in ca
         THEN provider_loop(list, i + 1, ca, Append(acc, provider_result(list[i])),
                            net, sent)
         ELSE IF http_get(net[list[i]]) # None
              THEN [raised |-> http_get(net[list[i]]), results |-> <<>>,
                    cache |-> ca, sent |-> sent \cup {list[i]}]
              ELSE provider_loop(list, i + 1, ca \cup {list[i]},
                                 Append(acc, provider_result(list[i])), net,
                                 sent \cup {list[i]})

\* Provider.lookup(addresses): net is what the network answers for each
\* address during this call
ProviderLookup(addresses, net) ==
    /\ pcalls < MaxBatches
    /\ pcalls' = pcalls + 1
    /\ \E l \in to_ip_list(addresses) :
          IF l.raised # None
          THEN /\ pret' = [raised |-> l.raised, ips |-> <<>>, results |-> <<>>,
                           net |-> net, sent |-> {}]
               /\ pcache' = pcache
          ELSE LET r == provider_loop(l.list, 1, pcache, <<>>, net, {}) IN
               /\ pret' = [raised |-> r.raised, ips |-> l.list,
                           results |-> r.results, net |-> net, sent |-> r.sent]
               /\ pcache' = r.cache
    /\ UNCHANGED <<tvars, nvars, rvars, lvars, svars, cvars, kvars>>

\* ---------------------------------------------------------------------
\* The parsers applied to the outcome of one request
\* ---------------------------------------------------------------------
\* status codes the API may answer with: 200, two other 2xx codes, the
\* rate limit and two failures
StatusCodes == {200, 201, 204, 404, 429, 500}
\* response bodies: see json_decodes
Bodies == json_objects \cup {"[]", "<html>", ""}

\* the outcomes TwoIP.__request can return for one address
Outcomes ==
    {request_raised(ip, e) : ip \in Addr, e \in Exceptions}
    \cup {request_returned(ip, r) :
             ip \in Addr,
             r \in [status_code : StatusCodes, text : Bodies,
                    content_type : ContentTypes]}

\* TwoIP.__parse_geo_result(result = rin)
ParseGeo ==
    /\ rfun = "none"
    /\ rfun' = "geo"
    /\ rout' = parse_geo_result(rin)
    /\ UNCHANGED <<rin, tvars, nvars, pvars, lvars, svars, cvars, kvars>>

\* TwoIP.__parse_provider_result(result = rin)
ParseProvider ==
    /\ rfun = "none"
    /\ rfun' = "provider"
    /\ rout' = parse_provider_result(rin)
    /\ UNCHANGED <<rin, tvars, nvars, pvars, lvars, svars, cvars, kvars>>

\* HTTP.get of the synchronous client when client.get returned the
\* response of rin: the decoded body, or the exception of __check_code,
\* of the content type test or of the decoding
HTTPGet ==
    /\ rfun = "none"
    /\ "response" \in DOMAIN rin
    /\ rfun' = "http"
    /\ rout' = IF http_get(rin.response) # None
               THEN Raised(http_get(rin.response))
               ELSE [type |-> "dict", text |-> rin.response.text]
    /\ UNCHANGED <<rin, tvars, nvars, pvars, lvars, svars, cvars, kvars>>

\* ---------------------------------------------------------------------
\* The normalizers applied to a list, and applied again to their output
\* ---------------------------------------------------------------------
NoOutcome == [raised |-> None, list |-> <<>>]

\* TwoIP.__normalize_ip on the list of the caller
NormalizeTwoIP ==
    /\ nfun = "none"
    /\ nfun' = "TwoIP"
    /\ LET r == normalize_ip(nin, nstrict) IN
       /\ nout' = [raised |-> IF r.fatal THEN "SystemExit" ELSE None, list |-> r.ips]
       /\ nlog' = r.log
    /\ UNCHANGED <<nin, nstrict, nagain, tvars, pvars, rvars, lvars, svars, cvars, kvars>>

\* Client.__normalize_ips on the list of the caller
NormalizeClient ==
    /\ nfun = "none"
    /\ nfun' = "Client"
    /\ nout' = normalize_ips(nin)
    /\ UNCHANGED <<nin, nstrict, nagain, nlog, tvars, pvars, rvars, lvars, svars, cvars, kvars>>

\* Provider.__to_ip_list on the list of the caller
NormalizeProvider ==
    /\ nfun = "none"
    /\ nfun' = "Provider"
    /\ nout' \in to_ip_list(nin)
    /\ UNCHANGED <<nin, nstrict, nagain, nlog, tvars, pvars, rvars, lvars, svars, cvars, kvars>>

\* the same function applied to the list it returned: __normalize_ip gets
\* the address objects, __normalize_ips the strings it produced
NormalizeAgain ==
    /\ nfun \in {"TwoIP", "Client"}
    /\ nout.raised = None
    /\ nagain = NoOutcome
    /\ nfun' = IF nfun = "TwoIP" THEN "TwoIP twice" ELSE "Client twice"
    /\ nagain' = IF nfun = "TwoIP"
                 THEN LET r == normalize_ip(nout.list, nstrict) IN
                      [raised |-> IF r.fatal THEN "SystemExit" ELSE None, list |-> r.ips]
                 ELSE normalize_ips([i \in 1..Len(nout.list) |-> [str |-> nout.list[i]]])
    /\ UNCHANGED <<nin, nstrict, nout, nlog, tvars, pvars, rvars, lvars, svars, cvars, kvars>>

\* ---------------------------------------------------------------------
\* The result collections (twoip/datatypes/base.py, geolist.py,
\* providerlist.py)
\* ---------------------------------------------------------------------
\* field names a caller may ask for: the address field, fields of both
\* kinds with a title (error) and of one kind (success, city, name), the
\* name of a method (describe) and a name that is nothing (bogus)
FieldNames == {"ip", "error", "success", "city", "name", "describe", "bogus"}

\* GeoList._default_fields(format), ProviderList._default_fields(format)
default_fields_geo(format) ==
    IF format = "table" THEN <<"success_icon", "city", "country">>
    ELSE <<"success", "city", "country">>

default_fields_provider(format) ==
    IF format = "table" THEN <<"success_icon", "autonomous_system", "name", "website">>
    ELSE <<"success", "autonomous_system", "name", "website">>

default_fields(kind, format) ==
    IF kind = "geo" THEN default_fields_geo(format) ELSE default_fields_provider(format)

\* GeoList._sample(), ProviderList._sample()
sample(kind) ==
    IF kind = "geo" THEN GeoResult(A4, None, None, NoneInt, NoFields)
    ELSE ProviderResult(A4, None, None, NoneInt)

\* the methods of BaseResult
methods == {"get_meta", "describe", "is_global", "is_private", "fields"}

\* hasattr(result, name): an attribute that was assigned, or a method
hasattr(result, name) ==
    name \in (DOMAIN result \ {"type", "data"}) \cup DOMAIN result.data \cup methods

\* getattr(result, name) for an attribute that was assigned
getattr(result, name) ==
    IF name \in DOMAIN result.data THEN result.data[name] ELSE result[name]

\* __dataclass_fields__ of GeoResult and of ProviderResult
dataclass_fields(kind) ==
    {"ip", "ipaddress", "http_code", "api_response_raw", "error", "success",
     "success_icon"}
    \cup (IF kind = "geo" THEN field_filter_geo ELSE provider_fields \cup {"prefix"})

\* the fields whose metadata has a 'title': five of BaseResult, none of
\* GeoResult, one of ProviderResult
titles(kind) ==
    IF kind = "geo"
    THEN [ip |-> "IP Address", http_code |-> "HTTP Code", error |-> "Error",
          success |-> "Success", success_icon |-> "Success"]
    ELSE [ip |-> "IP Address", http_code |-> "HTTP Code", error |-> "Error",
          success |-> "Success", success_icon |-> "Success",
          name |-> "Provider Name"]

\* BaseResult.get_meta(field, 'title') raises KeyError for a name that is
\* no dataclass field and for a field without a title
get_meta_raises(kind, field) ==
    field \notin dataclass_fields(kind) \/ field \notin DOMAIN titles(kind)

\* Base.__headers: the loop over fields; KeyError for a name the sample
\* object has no attribute of, ValueError for one without a title
RECURSIVE headers_loop(_, _, _, _)
headers_loop(kind, fields, i, acc) ==
    IF i > Len(fields) THEN [raised |-> None, headers |-> acc]
    ELSE IF ~hasattr(sample(kind), fields[i])
         THEN [raised |-> "KeyError", headers |-> <<>>]
         ELSE IF get_meta_raises(kind, fields[i])
              THEN [raised |-> "ValueError", headers |-> <<>>]
              ELSE headers_loop(kind, fields, i + 1,
                                Append(acc, titles(kind)[fields[i]]))

headers(kind, fields) == headers_loop(kind, fields, 1, <<>>)

\* fields.index(x), and the list after fields.pop(i)
index(fields, x) ==
    CHOOSE i \in 1..Len(fields) : fields[i] = x /\ \A j \in 1..(i - 1) : fields[j] # x
pop(fields, i) == SubSeq(fields, 1, i - 1) \o SubSeq(fields, i + 1, Len(fields))

\* faulty variant: an address field that is in the list stays where it is
parse_fields_keeps_place(kind, format, fields) ==
    LET f == IF fields = <<>> THEN default_fields(kind, format) ELSE fields
    IN IF "ip" \in Range(f) THEN f ELSE <<"ip">> \o f

\* Base.__parse_fields(format, fields): the list it returns. "not fields"
\* is true for None and for the empty list, both are <<>> here. The first
\* 'ip' of the list is taken out and put in front.
parse_fields(kind, format, fields) ==
    LET f == IF fields = <<>> THEN default_fields(kind, format) ELSE fields
    IN IF "ip" \in Range(f) THEN <<"ip">> \o pop(f, index(f, "ip"))
       ELSE <<"ip">> \o f

\* what the call leaves in the list object of the caller: insert and pop
\* work on that object; for None or an empty list they work on the new
\* list of _default_fields
caller_fields(kind, format, fields) ==
    IF fields = <<>> THEN fields ELSE parse_fields(kind, format, fields)

\* f'{value}' of an attribute: of an integer, of the tuple in success, of
\* None and of a string
fstring(name, value) ==
    IF name = "http_code"
    THEN IF value = NoneInt THEN "None" ELSE ToString(value)
    ELSE IF name = "success" THEN "(True,)"
    ELSE value

\* Base.__retrieve_data(fields): one row per record, one cell per field
retrieve_data(recs, fields) ==
    [i \in 1..Len(recs) |->
        [j \in 1..Len(fields) |-> fstring(fields[j], getattr(recs[i], fields[j]))]]

\* faulty variant: the headers are not asked for, a name the records do
\* not have gives an empty column
export_lenient(kind, format, recs, fields) ==
    LET cols == parse_fields(kind, format, fields)
    IN [type |-> format, headers |-> cols,
        data |-> [i \in 1..Len(recs) |->
                     [j \in 1..Len(cols) |->
                         IF hasattr(recs[i], cols[j]) /\ cols[j] \notin methods
                         THEN fstring(cols[j], getattr(recs[i], cols[j]))
                         ELSE ""]]]

\* Base.to_table(fields) and Base.to_csv(fields): __parse_fields, then
\* __headers, then __retrieve_data, then tabulate or the csv writer. The
\* text is not modelled, the value is the headers and the rows it is
\* made of.
export(kind, format, recs, fields) ==
    LET cols == parse_fields(kind, format, fields)
        h == headers(kind, cols)
    IN IF h.raised # None THEN Raised(h.raised)
       ELSE [type |-> format, headers |-> h.headers,
             data |-> retrieve_data(recs, cols)]

\* faulty variant: a later record of the same address replaces the entry
RECURSIVE to_dict_loop_last(_, _, _)
to_dict_loop_last(recs, i, result_dict) ==
    IF i > Len(recs) THEN result_dict
    ELSE to_dict_loop_last(recs, i + 1,
             [k \in DOMAIN result_dict \cup {recs[i].ip} |->
                 IF k = recs[i].ip THEN recs[i] ELSE result_dict[k]])

\* Base.to_dict: the loop over self.results; a record whose ip is a key
\* already is skipped (GeoLookup.to_dict is the same loop)
RECURSIVE to_dict_loop(_, _, _)
to_dict_loop(recs, i, result_dict) ==
    IF i > Len(recs) THEN result_dict
    ELSE IF recs[i].ip \in DOMAIN result_dict
         THEN to_dict_loop(recs, i + 1, result_dict)
         ELSE to_dict_loop(recs, i + 1,
                  [k \in DOMAIN result_dict \cup {recs[i].ip} |->
                      IF k = recs[i].ip THEN recs[i] ELSE result_dict[k]])

to_dict(recs) == to_dict_loop(recs, 1, [k \in {} |-> NoneType])

\* the outcomes of requests the records of a collection are parsed
\* from: answers of the API, good and refused
ListOutcomes ==
    {request_returned(ip, r) :
        ip \in Addr,
        r \in {[status_code |-> 200, text |-> "json"],
               [status_code |-> 200, text |-> "{}"],
               [status_code |-> 200, text |-> "<html>"],
               [status_code |-> 429, text |-> "<html>"],
               [status_code |-> 500, text |-> "json"]}}

\* the records a collection of a kind can hold
Records(kind) ==
    IF kind = "geo"
    THEN {parse_geo_result(o) : o \in ListOutcomes}
    ELSE {parse_provider_result(o) : o \in ListOutcomes} \ {NoneType}

\* the field lists a caller may pass (<<>>: none, or an empty list)
FieldLists == SeqUpTo(FieldNames, MaxFields)

\* Base.to_dict()
ToDict ==
    /\ lfun = "none"
    /\ lfun' = "to_dict"
    /\ lout' = [type |-> "dict", dict |-> to_dict(lres)]
    /\ UNCHANGED <<lkind, lres, lasked, lfields, lcols, tvars, nvars, pvars, rvars, svars, cvars, kvars>>

\* Base.to_table(fields = lfields)
ToTable ==
    /\ lfun = "none"
    /\ lfun' = "to_table"
    /\ lcols' = parse_fields(lkind, "table", lfields)
    /\ lfields' = caller_fields(lkind, "table", lfields)
    /\ lout' = export(lkind, "table", lres, lfields)
    /\ UNCHANGED <<lkind, lres, lasked, tvars, nvars, pvars, rvars, svars, cvars, kvars>>

\* Base.to_csv(fields = lfields)
ToCsv ==
    /\ lfun = "none"
    /\ lfun' = "to_csv"
    /\ lcols' = parse_fields(lkind, "csv", lfields)
    /\ lfields' = caller_fields(lkind, "csv", lfields)
    /\ lout' = export(lkind, "csv", lres, lfields)
    /\ UNCHANGED <<lkind, lres, lasked, tvars, nvars, pvars, rvars, svars, cvars, kvars>>

\* no collection has been built
ListIdle ==
    /\ lkind = "geo"
    /\ lres = <<>>
    /\ lasked = <<>>
    /\ lfields = <<>>
    /\ lfun = "none"
    /\ lcols = <<>>
    /\ lout = NoneType

\* ---------------------------------------------------------------------
\* Sorted tables (twoip/dataclasses/_common.py, dataclasses/provider.py)
\* ---------------------------------------------------------------------
\* ProviderResults._table_headers
table_headers == <<"IP Address", "Provider", "ASN", "Prefix", "Website">>

\* A cell of the rows to_table builds is a text; it is given by its rank
\* in the order in which sorted() compares texts.
Cells == 0..1
\* the rows of the model: at most one cell of a row has the higher rank
TableRows ==
    {r \in [1..Len(table_headers) -> Cells] :
        Cardinality({c \in 1..Len(table_headers) : r[c] = 1}) <= 1}

\* the sort argument: a str or an int (the record says which)
SortKeys ==
    [str : Range(table_headers) \cup {"bogus"}]
    \cup [int : (0 - 2)..(Len(table_headers) + 1)]

\* sorted(data, key = lambda x: x[c]): stable, a row goes behind the rows
\* whose key is not greater (c counts from 1)
RECURSIVE sorted(_, _, _, _)
sorted(data, c, i, acc) ==
    IF i > Len(data) THEN acc
    ELSE LET k == Cardinality({j \in 1..Len(acc) : acc[j][c] <= data[i][c]})
         IN sorted(data, c, i + 1,
                   SubSeq(acc, 1, k) \o <<data[i]>> \o SubSeq(acc, k + 1, Len(acc)))

\* tabulate(data, headers, tablefmt): the text is not modelled, the value
\* is the headers and the rows in their order
tabulate(data, hdrs) == [type |-> "table", headers |-> hdrs, data |-> data]

\* BaseResults._generate_table(data, tablefmt, sort). A python list is
\* indexed from 0: _table_headers[sort] is element sort + 1 here, and
\* raises IndexError when sort is the length of the list.
generate_table(hdrs, data, sort) ==
    IF "str" \in DOMAIN sort /\ sort.str \in Range(hdrs)
    THEN tabulate(sorted(data, index(hdrs, sort.str), 1, <<>>), hdrs)
    ELSE IF "int" \in DOMAIN sort
         THEN LET sort1 == sort.int + 1
              IN IF sort1 < 0 \/ sort1 > Len(hdrs)
                 THEN Raised("ValueError")
                 ELSE IF sort1 = Len(hdrs)
                      THEN Raised("IndexError")
                      ELSE tabulate(sorted(data, index(hdrs, hdrs[sort1 + 1]), 1, <<>>),
                                    hdrs)
         ELSE Raised("ValueError")

\* ProviderResults.to_table(tablefmt, sort = ssort) on the rows sdata
ProviderToTable ==
    /\ sfun = "none"
    /\ sfun' = "to_table"
    /\ sout' = generate_table(table_headers, sdata, ssort)
    /\ UNCHANGED <<sdata, ssort, tvars, nvars, pvars, rvars, lvars, cvars, kvars>>

\* no table has been asked for
TableIdle ==
    /\ sdata = <<>>
    /\ ssort = [str |-> "IP Address"]
    /\ sfun = "none"
    /\ sout = NoneType

\* ---------------------------------------------------------------------
\* Client.__init__ (twoip/client.py)
\* ---------------------------------------------------------------------
\* the integers tried for the connections argument
ConnRange == (0 - 2)..(ConnCap + 2)

\* Client.__init__(connections = conn, strict = st): out of range, strict
\* mode raises ValueError, otherwise connections becomes 100
client_init(conn, st) ==
    IF conn < 1 \/ conn > ConnCap
    THEN IF st
         THEN Raised("ValueError")
         ELSE [type |-> "Client", connections |-> 100, strict |-> st]
    ELSE [type |-> "Client", connections |-> conn, strict |-> st]

\* Client(connections = cconn, strict = cstrict)
ClientConstruct ==
    /\ cfun = "none"
    /\ cfun' = "Client"
    /\ cobj' = client_init(cconn, cstrict)
    /\ UNCHANGED <<cconn, cstrict, tvars, nvars, pvars, rvars, lvars, svars, kvars>>

\* no Client has been constructed
ClientIdle ==
    /\ cconn = 10
    /\ cstrict = FALSE
    /\ cfun = "none"
    /\ cobj = NoneType

\* ---------------------------------------------------------------------
\* ProviderResult.__post_init__ (twoip/datatypes/providerresult.py and
\* twoip/dataclasses/provider.py): the prefix of a record
\* ---------------------------------------------------------------------
\* an argument the caller does not pass
Missing == "<missing>"

\* routes and prefix lengths a record may be constructed with: valid
\* networks of both families, a route with host bits set, text that is
\* no address or no number, a length too large, the empty string, None
Routes == {Missing, None, "", "192.0.2.0", "192.0.2.1", "2001:db8::", "::1", "bogus"}
Lengths == {Missing, None, "", "24", "32", "33", "64", "128", "x"}

\* bool(v) of a string or None
truthy(v) == v # None /\ v # ""

\* int(s): whether the text is a decimal number, and the number
is_decimal(s) == s \in {"24", "32", "33", "64", "128"}
int(s) ==
    CASE s = "24" -> 24
      [] s = "32" -> 32
      [] s = "33" -> 33
      [] s = "64" -> 64
      [] s = "128" -> 128

\* the bits of a group (an octet of IPv4, 16 bits of IPv6) that lie
\* outside a prefix of the given length are zero, for every group
no_host_bits(packed, bits, length) ==
    \A j \in 1..Len(packed) :
        LET rest == length - bits * (j - 1)
            keep == IF rest < 0 THEN 0 ELSE IF rest > bits THEN bits ELSE rest
        IN packed[j] % (2 ^ (bits - keep)) = 0

\* ipaddress.ip_network(f"{route}/{length}") with strict = True: the
\* network, or ValueError when the route is no address, the length no
\* number from 0 to the width of the family, or the route has host bits
\* set
ip_network(route, length) ==
    IF ~is_ip(route) \/ ~is_decimal(length)
    THEN Raised("ValueError")
    ELSE LET a == ip_address(route)
             bits == IF a.version = 4 THEN 8 ELSE 16
         IN IF int(length) > bits * Len(a.packed)
            THEN Raised("ValueError")
            ELSE IF ~no_host_bits(a.packed, bits, int(length))
                 THEN Raised("ValueError")
                 ELSE [type |-> "network", version |-> a.version,
                       network_address |-> a, prefixlen |-> int(length)]

\* an argument that is not passed keeps the default None of its field
default_none(v) == IF v = Missing THEN None ELSE v

\* ProviderResult(ipaddress, route, length) of datatypes/providerresult.py
\* and its __post_init__: self.ip is the text of the address, so neither
\* type(self.ip) == IPv4Address nor type(self.ip) == IPv6Address holds, the
\* local prefix is never assigned, and self.prefix = prefix raises
\* UnboundLocalError whenever route and length are both set
datatypes_ProviderResult(ipaddress, route, length) ==
    IF truthy(default_none(route)) /\ truthy(default_none(length))
    THEN Raised("UnboundLocalError")
    ELSE [type |-> "ProviderResult", ipaddress |-> ipaddress,
          ip |-> str_ip(ipaddress), route |-> default_none(route),
          length |-> default_none(length), prefix |-> NoneType]

\* the fields of ProviderResult of dataclasses/provider.py, and those
\* without a default
result_fields == {"ip", "route", "mask", "name_ripe", "name_rus", "site", "asn",
                  "url", "ipaddress", "prefix", "ip_range_start", "ip_range_end"}
required_fields == {"ip", "route", "ipaddress"}

\* ProviderResult(ipaddress = ipaddress, **response) of
\* dataclasses/provider.py: the generated __init__ raises TypeError for a
\* keyword that is no field, for ipaddress passed twice and for a
\* missing field without default; __post_init__ calls ip_network when
\* route and mask are both set, outside every try block, and int(mask)
\* when mask is set. Of the other fields the model follows site and
\* name_ripe, which become None when empty.
dataclasses_ProviderResult(ipaddress, response) ==
    IF \/ ~(DOMAIN response \subseteq result_fields \ {"ipaddress"})
       \/ ~(required_fields \ {"ipaddress"} \subseteq DOMAIN response)
    THEN Raised("TypeError")
    ELSE LET get(k) == IF k \in DOMAIN response THEN response[k] ELSE None
             network == IF truthy(get("route")) /\ truthy(get("mask"))
                        THEN ip_network(get("route"), get("mask"))
                        ELSE NoneType
         IN IF network.type = "raised" \/ (truthy(get("mask")) /\ ~is_decimal(get("mask")))
            THEN Raised("ValueError")
            ELSE [type |-> "ProviderResult", ipaddress |-> ipaddress,
                  ip |-> response.ip, route |-> get("route"),
                  mask |-> IF truthy(get("mask")) THEN int(get("mask")) ELSE NoneInt,
                  site |-> IF truthy(get("site")) THEN get("site") ELSE None,
                  name_ripe |-> IF truthy(get("name_ripe")) THEN get("name_ripe") ELSE None,
                  prefix |-> network]

\* the keyword arguments of a call that passes ip and, unless Missing,
\* route and mask
result_kwargs(ipaddress, route, mask) ==
    LET keys == {"ip"} \cup (IF route = Missing THEN {} ELSE {"route"})
                       \cup (IF mask = Missing THEN {} ELSE {"mask"})
    IN [k \in keys |-> CASE k = "ip" -> str_ip(ipaddress)
                         [] k = "route" -> route
                         [] k = "mask" -> mask]

\* ProviderResult(ipaddress = kip, route = kroute, length = klength) of
\* datatypes/providerresult.py
ConstructDatatypes ==
    /\ kfun = "none"
    /\ kfun' = "datatypes"
    /\ kout' = datatypes_ProviderResult(kip, kroute, klength)
    /\ UNCHANGED <<kip, kroute, klength, tvars, nvars, pvars, rvars, lvars, svars, cvars>>

\* ProviderResult(ipaddress = kip, ip = str(kip), route = kroute,
\* mask = klength) of dataclasses/provider.py
ConstructDataclasses ==
    /\ kfun = "none"
    /\ kfun' = "dataclasses"
    /\ kout' = dataclasses_ProviderResult(kip, result_kwargs(kip, kroute, klength))
    /\ UNCHANGED <<kip, kroute, klength, tvars, nvars, pvars, rvars, lvars, svars, cvars>>

\* response["asn"] = response.pop("as")
rename_as(response) ==
    IF "as" \in DOMAIN response
    THEN [k \in (DOMAIN response \ {"as"}) \cup {"asn"} |->
             IF k = "asn" THEN response["as"] ELSE response[k]]
    ELSE response

\* Provider.__lookup(address) without its cache, o being what client.get
\* does: an exception of HTTP.get leaves the method; a decoded document
\* that is no dict cannot be passed as keyword arguments
lookup_uncached(address, o) ==
    IF http_get(o) # None THEN Raised(http_get(o))
    ELSE IF ~json_is_dict(o.text) THEN Raised("TypeError")
    ELSE dataclasses_ProviderResult(address, rename_as(response_json(o.text)))

\* Provider.__lookup(address = rin.ip) when client.get returned the
\* response of rin
LookupOne ==
    /\ rfun = "none"
    /\ "response" \in DOMAIN rin
    /\ rfun' = "lookup"
    /\ rout' = lookup_uncached(rin.ip, rin.response)
    /\ UNCHANGED <<rin, tvars, nvars, pvars, lvars, svars, cvars, kvars>>

\* no record has been constructed
ResultIdle ==
    /\ kip = A4
    /\ kroute = None
    /\ klength = None
    /\ kfun = "none"
    /\ kout = NoneType

\* ---------------------------------------------------------------------
\* Specifications
\* ---------------------------------------------------------------------
NormIdle ==
    /\ nin = <<>>
    /\ nstrict = FALSE
    /\ nfun = "none"
    /\ nout = NoOutcome
    /\ nagain = NoOutcome
    /\ nlog = <<>>

ProviderInit ==
    /\ pcache = {}
    /\ pret = [raised |-> None, ips |-> <<>>, results |-> <<>>,
               net |-> [a \in Addr |-> [exc |-> "ConnectError"]], sent |-> {}]
    /\ pcalls = 0

\* no outcome has been handed to a parser
ParseIdle ==
    /\ rin = [ip |-> A4, error |-> <<"Exception", "RuntimeError">>]
    /\ rfun = "none"
    /\ rout = NoneType

\* the TwoIP object and its lookup calls
Init == TwoIPInit /\ NormIdle /\ ProviderInit /\ ParseIdle /\ ListIdle /\ TableIdle /\ ClientIdle /\ ResultIdle

CoroutineIds == (1..MaxBatches) \X (1..MaxLen)

TaskStep(id) ==
    \/ TaskStart(id)
    \/ TaskAcquire(id)
    \/ \E r \in Responses : TaskRespond(id, r)
    \/ \E e \in Exceptions : TaskRaise(id, e)

Next ==
    \/ \E conn \in ConnArgs, st \in BOOLEAN, h2 \in BOOLEAN : Construct(conn, st, h2)
    \/ \E n \in Normalized[strict], kind \in {"geo", "provider"} : Lookup(n, kind)
    \/ \E id \in CoroutineIds : TaskStart(id)
    \/ \E id \in CoroutineIds : TaskAcquire(id)
    \/ \E id \in CoroutineIds, r \in Responses : TaskRespond(id, r)
    \/ \E id \in CoroutineIds, e \in Exceptions : TaskRaise(id, e)
    \/ GatherReturn
    \/ Aclose

Spec == Init /\ [][Next]_vars

\* The lookup calls of an object whose tasks are followed under fair
\* scheduling: the first MaxFairBatches calls
LookupFair(n, kind) == calls < MaxFairBatches /\ Lookup(n, kind)

NextFair ==
    \/ \E conn \in ConnArgs, st \in BOOLEAN, h2 \in BOOLEAN : Construct(conn, st, h2)
    \/ \E n \in Normalized[strict], kind \in {"geo", "provider"} : LookupFair(n, kind)
    \/ \E id \in CoroutineIds : TaskStart(id)
    \/ \E id \in CoroutineIds : TaskAcquire(id)
    \/ \E id \in CoroutineIds, r \in Responses : TaskRespond(id, r)
    \/ \E id \in CoroutineIds, e \in Exceptions : TaskRaise(id, e)
    \/ GatherReturn
    \/ Aclose

\* The event loop of asyncio.run runs every scheduled coroutine, every
\* request gets a response, fails or times out, and the awaiting code is
\* resumed.
FairSpec ==
    /\ Init /\ [][NextFair]_vars
    /\ \A id \in CoroutineIds : WF_vars(TaskStep(id))
    /\ WF_vars(GatherReturn)
    /\ WF_vars(Aclose)

\* the normalizers as functions of the caller's list
InitNorm ==
    /\ TwoIPInit /\ ProviderInit /\ ParseIdle /\ ListIdle /\ TableIdle /\ ClientIdle /\ ResultIdle
    /\ nin \in Inputs
    /\ nstrict \in BOOLEAN
    /\ nfun = "none"
    /\ nout = NoOutcome
    /\ nagain = NoOutcome
    /\ nlog = <<>>

NextNorm == NormalizeTwoIP \/ NormalizeClient \/ NormalizeProvider \/ NormalizeAgain

SpecNorm == InitNorm /\ [][NextNorm]_vars

\* the parsers as functions of the outcome of one request
InitParse ==
    /\ TwoIPInit /\ NormIdle /\ ProviderInit /\ ListIdle /\ TableIdle /\ ClientIdle /\ ResultIdle
    /\ rin \in Outcomes
    /\ rfun = "none"
    /\ rout = NoneType

NextParse == ParseGeo \/ ParseProvider \/ HTTPGet \/ LookupOne

SpecParse == InitParse /\ [][NextParse]_vars

\* the collections: any records with the default fields, and any field
\* list with a collection of no, one and two records
InitList ==
    /\ TwoIPInit /\ NormIdle /\ ProviderInit /\ ParseIdle /\ TableIdle /\ ClientIdle /\ ResultIdle
    /\ lkind \in {"geo", "provider"}
    /\ \/ lres \in SeqUpTo(Records(lkind), MaxRecords) /\ lasked = <<>>
       \/ /\ \E r \in Records(lkind) : lres \in {<<>>, <<r>>, <<r, r>>}
          /\ lasked \in FieldLists
    /\ lfields = lasked
    /\ lfun = "none"
    /\ lcols = <<>>
    /\ lout = NoneType

NextList == ToDict \/ ToTable \/ ToCsv

SpecList == InitList /\ [][NextList]_vars

\* the sorted table of a provider collection
InitTable ==
    /\ TwoIPInit /\ NormIdle /\ ProviderInit /\ ParseIdle /\ ListIdle /\ ClientIdle /\ ResultIdle
    /\ sdata \in SeqUpTo(TableRows, MaxRows)
    /\ ssort \in SortKeys
    /\ sfun = "none"
    /\ sout = NoneType

NextTable == ProviderToTable

SpecTable == InitTable /\ [][NextTable]_vars

\* Client.__init__ as a function of its arguments
InitClient ==
    /\ TwoIPInit /\ NormIdle /\ ProviderInit /\ ParseIdle /\ ListIdle /\ TableIdle /\ ResultIdle
    /\ cconn \in ConnRange
    /\ cstrict \in BOOLEAN
    /\ cfun = "none"
    /\ cobj = NoneType

NextClient == ClientConstruct

SpecClient == InitClient /\ [][NextClient]_vars

\* the two ProviderResult classes as functions of the arguments
InitResult ==
    /\ TwoIPInit /\ NormIdle /\ ProviderInit /\ ParseIdle /\ ListIdle /\ TableIdle /\ ClientIdle
    /\ kip \in Addr
    /\ kroute \in Routes
    /\ klength \in Lengths
    /\ kfun = "none"
    /\ kout = NoneType

NextResult == ConstructDatatypes \/ ConstructDataclasses

SpecResult == InitResult /\ [][NextResult]_vars

\* the synchronous provider client
NextProvider ==
    \E addresses \in Inputs, net \in [Addr -> ProviderNet] : ProviderLookup(addresses, net)

SpecProvider == Init /\ [][NextProvider]_vars

TypeOK ==
    /\ pc \in {"new", "idle", "gather", "aclose", "returned", "exited"}
    /\ calls \in 0..MaxBatches
    /\ \A id \in DOMAIN co : co[id].state \in {"pending", "waiting", "inflight", "done"}

\* ---------------------------------------------------------------------
\* Properties
\* ---------------------------------------------------------------------
IsDone(id) == co[id].state = "done"
Failed(r) == "error" \in DOMAIN r
Answered(r) == "response" \in DOMAIN r

\* C1: once asyncio.gather has returned, results has one entry per address
\* of the normalized list and entry i carries the address at position i,
\* in whatever order the requests completed.
C1_OrderPreserved ==
    pc \in {"aclose", "returned"} =>
        /\ Len(results) = Len(ips)
        /\ \A i \in 1..Len(ips) : results[i].ip = ips[i]

\* two different addresses whose requests finished in the reverse order
C1_Witness ==
    /\ pc = "aclose"
    /\ Len(ips) = 2 /\ ips[1] # ips[2]
    /\ order = <<tasks[2], tasks[1]>>
    /\ Len(results) = 2

\* C2: a transport failure of the request for one address never leaves the
\* batch lookup as an exception.  Stated for Provider.lookup of
\* methods/provider.py: a call during which the network fails for an
\* address returns normally.
C2_TransportErrorIsolated ==
    pcalls > 0 => pret.raised \notin {"ConnectError"}

\* C3: the dispatcher goes on only when every scheduled task has completed
\* with a response or with an error, and the completion of one task leaves
\* every sibling as it was.
C3_AllTasksComplete ==
    /\ [](pc = "aclose" =>
            /\ Len(tasks) = Len(ips)
            /\ \A i \in 1..Len(tasks) : tasks[i] \in DOMAIN co
            /\ \A id \in DOMAIN co :
                  IsDone(id) /\ (Failed(co[id].result) \/ Answered(co[id].result)))
    /\ [][\A i \in DOMAIN co : \A j \in DOMAIN co :
            (pc = "gather" /\ pc' = "gather" /\ i # j /\ ~IsDone(i) /\ co'[i].state = "done")
                => co'[j] = co[j]]_vars

\* a request failed first, its sibling was answered afterwards
C3_Witness ==
    /\ pc = "aclose"
    /\ Len(order) = 2
    /\ Failed(co[order[1]].result)
    /\ Answered(co[order[2]].result)

\* C4: under fair scheduling a batch that awaits its requests returns.
C4_BatchReturns == (pc = "gather") ~> (pc = "returned")

\* a returned batch in which two list positions held the same address and
\* shared one coroutine
C4_Witness ==
    /\ pc = "returned"
    /\ Len(ips) = 2 /\ ips[1] = ips[2]
    /\ Len(ret.results) = 2

\* C5: at every moment of a batch the number of requests that hold an
\* open connection, counted over all tasks of the batch, is at most the
\* connection ceiling.
C5_RequestsBelowCeiling ==
    Cardinality({id \in DOMAIN co : co[id].state = "inflight"}) <= connections

\* What the shared pool does bound: the open connections that carry the
\* requests of a batch, counted over all its tasks, are at most the
\* ceiling; without HTTP/2 so are the requests that hold one.
C5_PoolCeiling ==
    /\ Cardinality(pool_in_use(co)) <= connections
    /\ ~http2 => Cardinality({id \in DOMAIN co : co[id].state = "inflight"}) <= connections

\* the ceiling binds: one request holds the only connection, the other waits
C5_Witness ==
    /\ pc = "gather"
    /\ connections = 1
    /\ \E i \in DOMAIN co : \E j \in DOMAIN co :
           co[i].state = "inflight" /\ co[j].state = "waiting"

\* C6: a batch works on a client of its own, which is closed after all its
\* tasks have completed; no client is open once the call has returned or
\* ended the process.
C6_PoolClosed ==
    /\ [](\A c \in DOMAIN clients :
            clients[c] = "open" => c = client /\ pc \in {"gather", "aclose"})
    /\ [][client' # client => client' \notin DOMAIN clients /\ clients'[client'] = "open"]_vars
    /\ [][\A c \in DOMAIN clients :
            clients[c] = "open" /\ clients'[c] = "closed" =>
                \A id \in DOMAIN co : IsDone(id)]_vars

\* the second batch has returned, one of its requests failed, both clients
\* are closed
C6_Witness ==
    /\ pc = "returned"
    /\ calls = 2
    /\ DOMAIN clients = {1, 2}
    /\ clients[1] = "closed" /\ clients[2] = "closed"
    /\ \E i \in 1..Len(results) : Failed(results[i])

\* C7: in one batch call client.get is called exactly once for each address
\* of the normalized list and for no other address.
C7_OneGetPerAddress ==
    /\ \A a \in Addr : gets[a] <= 1
    /\ pc \in {"aclose", "returned"} =>
          \A a \in Addr : gets[a] = IF a \in Range(ips) THEN 1 ELSE 0

\* a returned batch of two list entries with a failed request
C7_Witness ==
    /\ pc = "returned"
    /\ Len(ips) = 2
    /\ \E i \in 1..Len(results) : Failed(results[i])
    /\ \A a \in Range(ips) : gets[a] = 1

\* C8: a lookup of N normalized addresses returns exactly N records, one
\* per address and none of them missing, a failed address with error set.
C8_OneRecordPerAddress ==
    pc = "returned" =>
        /\ Len(ret.results) = Len(ips)
        /\ \A i \in 1..Len(ips) :
              /\ ret.results[i].type \in {"GeoResult", "ProviderResult"}
              /\ ret.results[i].ipaddress = ips[i]
              /\ Failed(results[i]) => ret.results[i].error # None

\* the address an element of the caller's list denotes
C9_Denotes(item) == IF is_address_object(item) THEN item ELSE ip_address(item.str)
C9_Valid(item) == is_address_object(item) \/ is_ip(item.str)
C9_First(l, a) ==
    CHOOSE k \in 1..Len(l) :
        /\ C9_Valid(l[k]) /\ C9_Denotes(l[k]) = a
        /\ \A m \in 1..(k - 1) : ~(C9_Valid(l[m]) /\ C9_Denotes(l[m]) = a)

\* C9: the normalized list holds every address of the input once, in the
\* order of the first occurrences.
C9_DedupFirstOccurrence ==
    (nfun \in {"TwoIP", "Provider"} /\ nout.raised = None) =>
        /\ Range(nout.list) = {C9_Denotes(nin[k]) : k \in {m \in 1..Len(nin) : C9_Valid(nin[m])}}
        /\ \A i \in 1..Len(nout.list) : \A j \in 1..Len(nout.list) :
              /\ i # j => nout.list[i] # nout.list[j]
              /\ i < j => C9_First(nin, nout.list[i]) < C9_First(nin, nout.list[j])

\* C10: normalizing the output of a normalization returns that output.
C10_Idempotent ==
    nfun \in {"TwoIP twice", "Client twice"} => nagain = nout

\* two addresses, one of them given in a non canonical spelling,
\* normalized twice by TwoIP
C10_Witness ==
    /\ nfun = "TwoIP twice"
    /\ Len(nout.list) = 2
    /\ \E i \in 1..Len(nin) : nin[i] = [str |-> "0:0:0:0:0:0:0:1"]
    /\ nagain.list = nout.list

\* the position of the first element of a list that is no address
C11_Offending(l) ==
    CHOOSE k \in 1..Len(l) :
        ~C9_Valid(l[k]) /\ \A m \in 1..(k - 1) : C9_Valid(l[m])

\* C11: in strict mode every list with an element that is no address ends
\* the lookup; when a lookup was ended, the fatal message quotes the first
\* such element, nothing after that element was looked at, no request was
\* made and no client was created by the call.
C11_StrictAborts ==
    /\ (pc = "idle" /\ strict) =>
          \A arg \in Inputs :
              (\E m \in 1..Len(arg) : ~C9_Valid(arg[m])) =>
                  lookup_normalized(arg, strict).fatal
    /\ (pc = "exited" /\ ret.type = "SystemExit") =>
          LET l == ret.ip
              k == C11_Offending(l)
              last == ret.log[Len(ret.log)]
          IN /\ strict
             /\ \E m \in 1..Len(l) : ~C9_Valid(l[m])
             /\ last.level = "fatal" /\ last.address = l[k].str
             /\ \A i \in 1..Len(ret.log) :
                   \E m \in 1..k : ~is_address_object(l[m]) /\ ret.log[i].address = l[m].str
             /\ Range(ret.ips) \subseteq {C9_Denotes(l[m]) : m \in 1..(k - 1)}
             /\ gets = NoGets /\ tasks = <<>> /\ co = NoCoroutines
             /\ Cardinality(DOMAIN clients) < calls
             /\ \A c \in DOMAIN clients : clients[c] = "closed"

\* the second lookup of an object is given a valid address followed by a
\* string that is no address, after a first lookup that made requests
C11_Witness ==
    /\ pc = "exited" /\ ret.type = "SystemExit"
    /\ calls = 2 /\ DOMAIN clients = {1}
    /\ Len(ret.ip) = 2 /\ C9_Valid(ret.ip[1]) /\ ~C9_Valid(ret.ip[2])
    /\ Len(ret.ips) = 1

\* the lists of positions of l, one for each element of out, that go up
C12_Embeddings(out, l) ==
    {f \in [1..Len(out) -> 1..Len(l)] :
        /\ \A i \in 1..Len(out) : C9_Valid(l[f[i]]) /\ C9_Denotes(l[f[i]]) = out[i]
        /\ \A i \in 1..Len(out) : \A j \in 1..Len(out) : i < j => f[i] < f[j]}

\* C12: when strict mode was not asked for, normalization raises nothing;
\* the list it returns holds the address of every valid element and of no
\* other, in the order of the input; TwoIP reports every element that is
\* no address by a warning and logs nothing above that level.
C12_LenientSkips ==
    (nfun \in {"TwoIP", "Provider"} /\ ~nstrict) =>
        /\ nout.raised = None
        /\ \A m \in 1..Len(nin) : C9_Valid(nin[m]) => C9_Denotes(nin[m]) \in Range(nout.list)
        /\ C12_Embeddings(nout.list, nin) # {}
        /\ nfun = "TwoIP" =>
              /\ \A m \in 1..Len(nin) : ~C9_Valid(nin[m]) =>
                    \E i \in 1..Len(nlog) :
                        /\ nlog[i].address = nin[m].str
                        /\ nlog[i].message = "Could not validate IP address, it will be skipped"
              /\ \A i \in 1..Len(nlog) : nlog[i].level = "warning"

\* C13: for every result record the success flag is true exactly when
\* http_code is 200 and error is None, and false in every other case.
C13_SuccessFlag ==
    (rfun \in {"geo", "provider"} /\ rout.type \in {"GeoResult", "ProviderResult"}) =>
        /\ "success" \in DOMAIN rout
        /\ bool(rout.success) <=> (rout.http_code = 200 /\ rout.error = None)

\* C14: every record a parser returns with error set has all its domain
\* fields None (for a provider record the derived prefix too), whichever
\* branch of the parser built it.
C14_ErrorMeansNoFields ==
    (/\ rfun \in {"geo", "provider"}
     /\ rout.type \in {"GeoResult", "ProviderResult"}
     /\ rout.error # None) =>
        /\ \A k \in DOMAIN rout.data : rout.data[k] = None
        /\ rout.type = "ProviderResult" => rout.prefix = None

\* a response that is refused for its status code although its body is
\* the JSON object of a successful answer
C14_Witness ==
    /\ rfun = "geo"
    /\ "response" \in DOMAIN rin
    /\ rin.response.status_code = 500
    /\ rin.response.text = "json"
    /\ rout.type = "GeoResult"
    /\ rout.error = "Unexpected HTTP response code"

\* C15: an outcome whose status code is 429 becomes a record with the
\* rate limit error, http_code 429 and the raw body kept, whatever the
\* body is.
C15_RateLimitRecord ==
    (/\ rfun # "none"
     /\ "response" \in DOMAIN rin
     /\ rin.response.status_code = 429) =>
        /\ rout.type \in {"GeoResult", "ProviderResult"}
        /\ rout.error = "Rate limit exceeded"
        /\ rout.http_code = 429
        /\ rout.api_response_raw = rin.response.text

\* C16: an outcome whose status code is neither 200 nor 429, another 2xx
\* code included, becomes a record with the unexpected code error and
\* that code as http_code, and its body is not decoded into domain
\* fields even when it is valid JSON.
C16_UnexpectedCodeRecord ==
    (/\ rfun # "none"
     /\ "response" \in DOMAIN rin
     /\ rin.response.status_code \notin {200, 429}) =>
        /\ rout.type \in {"GeoResult", "ProviderResult"}
        /\ rout.error = "Unexpected HTTP response code"
        /\ rout.http_code = rin.response.status_code
        /\ \A k \in DOMAIN rout.data : rout.data[k] = None

\* C17: the mapping to_dict returns has exactly one entry per distinct
\* address among the records, its key the text of the address, and the
\* entry of an address that several records have is the first of them.
C17_MappingFirstWins ==
    lfun = "to_dict" =>
        LET d == lout.dict
            addresses == {lres[i].ipaddress : i \in 1..Len(lres)}
        IN /\ DOMAIN d = {str_ip(a) : a \in addresses}
           /\ Cardinality(DOMAIN d) = Cardinality(addresses)
           /\ \A i \in 1..Len(lres) :
                 (\A j \in 1..(i - 1) : lres[j].ipaddress # lres[i].ipaddress)
                    => d[str_ip(lres[i].ipaddress)] = lres[i]

\* two different records of one address
C17_Witness ==
    /\ lfun = "to_dict"
    /\ Len(lres) = 2
    /\ lres[1].ipaddress = lres[2].ipaddress
    /\ lres[1] # lres[2]
    /\ lout.dict[lres[1].ip] = lres[1]

\* how often x is in the list l, and l without every x
C18_Count(l, x) == Cardinality({i \in 1..Len(l) : l[i] = x})
C18_NotAddress(x) == x # "ip"
C18_Others(l) == SelectSeq(l, C18_NotAddress)

\* C18 as stated: for any requested field list the column list of
\* to_table and to_csv has the address field exactly once and first, the
\* other requested fields following in their requested order.
C18_AddressOnceFirst ==
    (lfun \in {"to_table", "to_csv"} /\ lasked # <<>>) =>
        /\ lcols[1] = "ip"
        /\ C18_Count(lcols, "ip") = 1
        /\ Tail(lcols) = C18_Others(lasked)

\* C18: for any requested field list the column list of to_table and
\* to_csv has the address field first; the entries after it are the
\* requested list in its order, without its first address field when it
\* has one. The address field is there exactly once when the request
\* names it at most once.
C18_AddressFirst ==
    (lfun \in {"to_table", "to_csv"} /\ lasked # <<>>) =>
        /\ lcols[1] = "ip"
        /\ IF "ip" \in Range(lasked)
           THEN \E k \in 1..Len(lasked) :
                   /\ lasked[k] = "ip"
                   /\ \A j \in 1..(k - 1) : lasked[j] # "ip"
                   /\ Tail(lcols) = [j \in 1..(Len(lasked) - 1) |->
                                        IF j < k THEN lasked[j] ELSE lasked[j + 1]]
           ELSE Tail(lcols) = lasked
        /\ C18_Count(lasked, "ip") <= 1 =>
              /\ C18_Count(lcols, "ip") = 1
              /\ Tail(lcols) = C18_Others(lasked)

\* the address field asked for in last place
C18_Witness ==
    /\ lfun \in {"to_table", "to_csv"}
    /\ Len(lasked) = 3
    /\ lasked[1] # "ip" /\ lasked[2] # "ip" /\ lasked[3] = "ip"
    /\ lcols = <<"ip", lasked[1], lasked[2]>>

\* C19: to_table and to_csv called with a field list that has a name
\* which is no field of the record type raise an error and return no
\* output: the name is not dropped and not shown as an empty column.
C19_UnknownFieldRaises ==
    (/\ lfun \in {"to_table", "to_csv"}
     /\ \E i \in 1..Len(lasked) : lasked[i] \notin dataclass_fields(lkind)) =>
        /\ lout.type = "raised"
        /\ lout.exc \in {"KeyError", "ValueError"}

\* a collection with a record, asked for a field that exists and a name
\* that does not
C19_Witness ==
    /\ lfun = "to_csv"
    /\ Len(lres) > 0
    /\ lasked = <<"error", "bogus">>
    /\ lout = Raised("KeyError")

\* C20: to_table and to_csv called without a field list succeed for both
\* kinds of collection, and their columns are the address field followed
\* by the default fields of the kind.
C20_DefaultFieldsExport ==
    (lfun \in {"to_table", "to_csv"} /\ lasked = <<>>) =>
        /\ lout.type # "raised"
        /\ lcols = <<"ip">> \o default_fields(lkind, IF lfun = "to_table"
                                                     THEN "table" ELSE "csv")
        /\ Len(lout.headers) = Len(lcols)

\* C30: to_table and to_csv leave the field list of the caller as it was
\* passed, same elements in the same order; an export only reads it.
C30_ExportReadsOnly ==
    lfun \in {"to_table", "to_csv"} => lfields = lasked

\* whether the sort argument names a column: a header name, or an index
\* from 0 to the number of columns less one
C21_ValidKey ==
    IF "str" \in DOMAIN ssort THEN ssort.str \in Range(table_headers)
    ELSE ssort.int >= 0 /\ ssort.int < Len(table_headers)

\* C21: a table asked for with a sort key that is no header name and no
\* index of a column raises an error and gives no table, negative and
\* too large indices included.
C21_InvalidSortKeyRaises ==
    (sfun = "to_table" /\ ~C21_ValidKey) => sout.type = "raised"

\* the column (counted from 1) the sort argument names
C29_Column ==
    IF "str" \in DOMAIN ssort THEN index(table_headers, ssort.str)
    ELSE ssort.int + 1

\* C29: an index i from 0 to the number of columns less one sorts the
\* rows by the column at position i, a header name by the column of that
\* name: the table has the rows that were given, in ascending order of
\* that column.
C29_SortsByColumn ==
    (sfun = "to_table" /\ C21_ValidKey) =>
        /\ sout.type = "table"
        /\ Len(sout.data) = Len(sdata)
        /\ \A r \in TableRows :
              Cardinality({i \in 1..Len(sdata) : sdata[i] = r})
                = Cardinality({i \in 1..Len(sout.data) : sout.data[i] = r})
        /\ \A i \in 1..(Len(sout.data) - 1) :
              sout.data[i][C29_Column] <= sout.data[i + 1][C29_Column]

\* C22: a batch asks the API afresh for every address it returns a record
\* of, also for an address that an earlier batch on the same client
\* looked up: no record comes from what an earlier batch remembered.
\* Stated for Provider.lookup of methods/provider.py.
C22_FreshRequests ==
    (pcalls > 0 /\ pret.raised = None) =>
        \A i \in 1..Len(pret.results) : pret.results[i].ipaddress \in pret.sent

\* C23: a constructed Client has a connection ceiling from 1 to 100, or
\* the construction has raised; an argument below 1 is not replaced by
\* the largest ceiling, and one above 100 not by the smallest.
C23_CeilingInRange ==
    (cfun = "Client" /\ cobj.type = "Client") =>
        /\ cobj.connections >= 1 /\ cobj.connections <= ConnCap
        /\ (cconn < 1 => cobj.connections # ConnCap)
        /\ (cconn > ConnCap => cobj.connections # 1)

\* the values that stand for no data in an answer of the API
C24_Sentinels == {"-", "Neizvestno", "Nevidomo"}

C26_BothPresent == truthy(default_none(kroute)) /\ truthy(default_none(klength))

\* route and prefix length form a network of the family of the address
C26_ValidNetwork ==
    /\ C26_BothPresent
    /\ ip_network(kroute, klength).type = "network"
    /\ ip_network(kroute, klength).version = kip.version

\* C26: a provider record constructed with a route and a prefix length
\* that form a network of the family of its address has that network as
\* prefix, for IPv4 and IPv6; a record constructed without route or
\* without prefix length has no prefix.
C26_PrefixDerived ==
    kfun # "none" =>
        /\ C26_ValidNetwork =>
              /\ kout.type = "ProviderResult"
              /\ kout.prefix = [type |-> "network", version |-> kip.version,
                                network_address |-> ip_address(kroute),
                                prefixlen |-> int(klength)]
        /\ ~C26_BothPresent =>
              /\ kout.type = "ProviderResult"
              /\ kout.prefix = NoneType

\* C27: a provider record constructed with a route and a prefix length
\* that form no network of the family of its address is constructed all
\* the same, without prefix: no exception leaves the constructor.
C27_InvalidPrefixUnset ==
    (kfun # "none" /\ C26_BothPresent /\ ~C26_ValidNetwork) =>
        /\ kout.type = "ProviderResult"
        /\ kout.prefix = NoneType

\* the Content-Type header declares application/json
C28_DeclaresJson ==
    rin.response.content_type \in {"application/json",
                                   "application/json; charset=utf-8"}

\* C28: HTTP.get of a response with status 200 whose Content-Type header
\* does not declare application/json, or that has no such header, raises
\* the content type error and returns no decoded data.
C28_ContentTypeError ==
    (/\ rfun = "http"
     /\ rin.response.status_code = 200
     /\ ~C28_DeclaresJson) => rout = Raised("APIContentTypeError")

\* the body of rin without the key that is in no allow-list
C25_WithoutExtra ==
    [rin EXCEPT !.response.text = IF @ = "json_extra" THEN "json" ELSE "provider"]

\* C25: a successful response with a key outside the allow-list of its
\* lookup kind gives a record, and the record has the fields it has for
\* the same response without that key.
C25_ExtraFieldsIgnored ==
    (/\ rfun \in {"geo", "provider", "lookup"}
     /\ "response" \in DOMAIN rin
     /\ rin.response.status_code = 200
     /\ rin.response.content_type = "application/json"
     /\ rin.response.text = IF rfun = "geo" THEN "json_extra" ELSE "provider_extra") =>
        /\ rout.type \in {"GeoResult", "ProviderResult"}
        /\ (rfun = "geo" => rout.data = parse_geo_result(C25_WithoutExtra).data)
        /\ (rfun = "provider" => rout.data = parse_provider_result(C25_WithoutExtra).data)
        /\ (rfun = "lookup" => rout = lookup_uncached(rin.ip, C25_WithoutExtra.response))
====
